---- MODULE Spec2Model ----
(***************************************************************************)
(* Model of lab6_20211049.py: role based access control over an SDN.       *)
(* SDNApplication keeps the policy tables (alumnos, servidores, cursos),   *)
(* the connection table (conexiones) and the handler counter; the          *)
(* Floodlight controller is the environment (device inventory, installed   *)
(* static flows, and the success or failure of every REST call).           *)
(*                                                                         *)
(* Python strings are modelled as sequences of string chunks, so that      *)
(* upper(), replace(), str() and the f-strings are computed, not assumed.  *)
(***************************************************************************)
EXTENDS Integers, Sequences, FiniteSets, TLC

VARIABLES
  alumnos,             \* SDNApplication.alumnos: codigo -> Alumno
  servidores,          \* SDNApplication.servidores: nombre -> Servidor
  cursos,              \* SDNApplication.cursos: codigo -> Curso
  conexiones,          \* SDNApplication.conexiones: handler -> Conexion
  connection_counter,  \* SDNApplication.connection_counter
  flows,               \* the controller's static flow table: (switch, name)
  issued,              \* history: the handlers crear_conexion has returned
  last,                \* the last operation: what it returned, the calls it made
  calls                \* crear_conexion calls in progress, one per thread:
                       \* the statement each is at and its local variables

vars == <<alumnos, servidores, cursos, conexiones, connection_counter,
          flows, issued, last, calls>>

----------------------------------------------------------------------------
(* Bounds *)

\* crear_conexion is explored while connection_counter <= MaxCounter
MaxCounter == 2

----------------------------------------------------------------------------
(* Strings *)

\* str.upper() on one character (the letters that occur in the model)
UpperChar(c) ==
  CASE c = "a" -> "A" [] c = "b" -> "B" [] c = "c" -> "C" [] c = "d" -> "D"
    [] c = "e" -> "E" [] c = "f" -> "F" [] c = "m" -> "M" [] c = "u" -> "U"
    [] c = "y" -> "Y"
    [] c = "dictando" -> "DICTANDO" [] c = "inactivo" -> "INACTIVO"
    [] c = "tcp" -> "TCP" [] c = "udp" -> "UDP"
    [] OTHER -> c

Upper(s) == [i \in 1..Len(s) |-> UpperChar(s[i])]

\* s.replace(ch, "")
Remove(s, ch) == SelectSeq(s, LAMBDA c : c /= ch)

\* mutant: "-" is not removed
Normalize_SinGuion(mac) == Upper(Remove(mac, ":"))

\* mac.replace(":", "").replace("-", "").upper()
Normalize(mac) == Upper(Remove(Remove(mac, ":"), "-"))

DigitChar(d) ==
  CASE d = 0 -> "0" [] d = 1 -> "1" [] d = 2 -> "2" [] d = 3 -> "3"
    [] d = 4 -> "4" [] d = 5 -> "5" [] d = 6 -> "6" [] d = 7 -> "7"
    [] d = 8 -> "8" [] d = 9 -> "9"

RECURSIVE Str(_)
\* str(n) for a natural number
Str(n) == IF n < 10 THEN <<DigitChar(n)>>
          ELSE Str(n \div 10) \o <<DigitChar(n % 10)>>

RECURSIVE ZeroPad(_, _)
ZeroPad(s, w) == IF Len(s) >= w THEN s ELSE ZeroPad(<<"0">> \o s, w)

\* f"{n:04d}"
Fmt04d(n) == ZeroPad(Str(n), 4)

\* x in list
InSeq(x, s) == \E i \in 1..Len(s) : s[i] = x

\* dict[k] = v
Put(f, k, v) == [x \in (DOMAIN f) \cup {k} |-> IF x = k THEN v ELSE f[x]]

\* mutant: the whole dict is cleared
Del_Vacia(f, k) == [x \in {} |-> f[k]]

\* del dict[k]
Del(f, k) == [x \in (DOMAIN f) \ {k} |-> f[x]]

EmptyDict == [x \in {} |-> {}]

\* Python None
None == <<>>

----------------------------------------------------------------------------
(* Domain classes *)

Alumno(nombre, codigo, mac) ==
  [nombre |-> nombre, codigo |-> codigo, mac |-> Upper(mac)]

Servicio(nombre, protocolo, puerto) ==
  [nombre |-> nombre, protocolo |-> Upper(protocolo), puerto |-> puerto]

Servidor(nombre, ip) == [nombre |-> nombre, ip |-> ip, servicios |-> <<>>]

agregar_servicio(servidor, servicio) ==
  [servidor EXCEPT !.servicios = Append(@, servicio)]

RECURSIVE FirstServicio(_, _, _)
FirstServicio(servicios, i, nombre_servicio) ==
  IF i > Len(servicios) THEN None
  ELSE IF servicios[i].nombre = nombre_servicio THEN <<servicios[i]>>
  ELSE FirstServicio(servicios, i + 1, nombre_servicio)

\* Optional[Servicio]: <<servicio>> or None
obtener_servicio(servidor, nombre_servicio) ==
  FirstServicio(servidor.servicios, 1, nombre_servicio)

ServidorPermitido(nombre, servicios_permitidos) ==
  [nombre |-> nombre, servicios_permitidos |-> servicios_permitidos]

Curso(codigo, nombre, estado) ==
  [codigo |-> codigo, nombre |-> nombre, estado |-> Upper(estado),
   alumnos |-> <<>>, servidores |-> <<>>]

agregar_alumno(curso, codigo_alumno) ==
  IF ~InSeq(codigo_alumno, curso.alumnos)
  THEN [curso EXCEPT !.alumnos = Append(@, codigo_alumno)]
  ELSE curso

RECURSIVE RemoveFirst(_, _)
\* list.remove(x): the first occurrence goes
RemoveFirst(s, x) ==
  IF s = <<>> THEN <<>>
  ELSE IF Head(s) = x THEN Tail(s)
  ELSE <<Head(s)>> \o RemoveFirst(Tail(s), x)

remover_alumno(curso, codigo_alumno) ==
  IF InSeq(codigo_alumno, curso.alumnos)
  THEN [curso EXCEPT !.alumnos = RemoveFirst(@, codigo_alumno)]
  ELSE curso

agregar_servidor(curso, servidor_permitido) ==
  [curso EXCEPT !.servidores = Append(@, servidor_permitido)]

RECURSIVE FirstBindingAllows(_, _, _, _)
\* the for loop of alumno_tiene_acceso_servicio: the first binding that names
\* the server decides
FirstBindingAllows(bindings, i, nombre_servidor, nombre_servicio) ==
  IF i > Len(bindings) THEN FALSE
  ELSE IF bindings[i].nombre = nombre_servidor
       THEN InSeq(nombre_servicio, bindings[i].servicios_permitidos)
       ELSE FirstBindingAllows(bindings, i + 1, nombre_servidor, nombre_servicio)

\* mutant: the state of the course is not looked at
alumno_tiene_acceso_servicio_SinEstado(curso, codigo_alumno, nombre_servidor, nombre_servicio) ==
  IF ~InSeq(codigo_alumno, curso.alumnos) THEN FALSE
  ELSE FirstBindingAllows(curso.servidores, 1, nombre_servidor, nombre_servicio)

alumno_tiene_acceso_servicio(curso, codigo_alumno, nombre_servidor, nombre_servicio) ==
  IF ~InSeq(codigo_alumno, curso.alumnos) THEN FALSE
  ELSE IF curso.estado /= <<"DICTANDO">> THEN FALSE
  ELSE FirstBindingAllows(curso.servidores, 1, nombre_servidor, nombre_servicio)

Conexion(handler, codigo_alumno, nombre_servidor, nombre_servicio) ==
  [handler |-> handler, codigo_alumno |-> codigo_alumno,
   nombre_servidor |-> nombre_servidor, nombre_servicio |-> nombre_servicio,
   activa |-> TRUE]

----------------------------------------------------------------------------
(* Floodlight controller client and the route functions *)

\* get_devices: the inventory the controller answers with, or [] when the
\* request raised
get_devices(response) == IF response.ok THEN response.devices ELSE <<>>

Fault == [kind |-> "fault"]
NotFound == [kind |-> "none"]

RECURSIVE ScanDevices(_, _, _)
\* the for loop of get_attachment_point over devices[i..]
ScanDevices(devs, i, mac_normalized) ==
  IF i > Len(devs) THEN NotFound
  ELSE LET device == devs[i] IN
    IF device.hasMac
    THEN IF device.mac = <<>> THEN Fault               \* device['mac'][0]
         ELSE IF Normalize(device.mac[1]) = mac_normalized
              THEN IF device.hasAP /\ device.attachmentPoint /= <<>>
                   THEN LET ap == device.attachmentPoint[1] IN
                        IF ap.wellFormed               \* ap['switchDPID'], ap['port']
                        THEN [kind |-> "ap", dpid |-> ap.switchDPID, port |-> ap.port]
                        ELSE Fault
                   ELSE ScanDevices(devs, i + 1, mac_normalized)
              ELSE ScanDevices(devs, i + 1, mac_normalized)
    ELSE ScanDevices(devs, i + 1, mac_normalized)

get_attachment_point(devs, mac_address) ==
  ScanDevices(devs, 1, Normalize(mac_address))

\* outcomes of the route request: a path, a RequestException (-> []), or a
\* JSON payload whose first element cannot be indexed (uncaught)
RouteOutcomes == {"path", "error", "malformed"}

\* mutant: empty fields are not removed
CleanEmpty_SinLimpiar(flow) == flow

\* {k: v for k, v in flow.items() if v != ""}
CleanEmpty(flow) == [k \in {x \in DOMAIN flow : flow[x] /= <<>>} |-> flow[k]]

arp_flow(alumno, servidor, servicio, handler, src_ap) ==
  [switch |-> src_ap.dpid,
   name |-> handler \o <<"_arp_request">>,
   cookie |-> <<"0">>,
   priority |-> <<"32768">>,
   in_port |-> Str(src_ap.port),
   eth_type |-> <<"0x0806">>,
   arp_tpa |-> servidor.ip,
   active |-> <<"true">>,
   actions |-> <<"output=flood">>]

arp_reply_flow(alumno, servidor, servicio, handler, src_ap) ==
  [switch |-> src_ap.dpid,
   name |-> handler \o <<"_arp_reply">>,
   cookie |-> <<"0">>,
   priority |-> <<"32768">>,
   eth_type |-> <<"0x0806">>,
   arp_spa |-> servidor.ip,
   arp_tha |-> alumno.mac,
   active |-> <<"true">>,
   actions |-> <<"output=">> \o Str(src_ap.port)]

outbound_flow(alumno, servidor, servicio, handler, src_ap) ==
  CleanEmpty(
  [switch |-> src_ap.dpid,
   name |-> handler \o <<"_outbound">>,
   cookie |-> <<"0">>,
   priority |-> <<"32768">>,
   in_port |-> Str(src_ap.port),
   eth_src |-> alumno.mac,
   eth_type |-> <<"0x0800">>,
   ipv4_dst |-> servidor.ip,
   ip_proto |-> IF servicio.protocolo = <<"TCP">> THEN <<"6">> ELSE <<"17">>,
   tcp_dst |-> IF servicio.protocolo = <<"TCP">> THEN Str(servicio.puerto) ELSE <<>>,
   udp_dst |-> IF servicio.protocolo = <<"UDP">> THEN Str(servicio.puerto) ELSE <<>>,
   active |-> <<"true">>,
   actions |-> <<"output=flood">>])

inbound_flow(alumno, servidor, servicio, handler, src_ap) ==
  CleanEmpty(
  [switch |-> src_ap.dpid,
   name |-> handler \o <<"_inbound">>,
   cookie |-> <<"0">>,
   priority |-> <<"32768">>,
   eth_dst |-> alumno.mac,
   eth_type |-> <<"0x0800">>,
   ipv4_src |-> servidor.ip,
   ip_proto |-> IF servicio.protocolo = <<"TCP">> THEN <<"6">> ELSE <<"17">>,
   tcp_src |-> IF servicio.protocolo = <<"TCP">> THEN Str(servicio.puerto) ELSE <<>>,
   udp_src |-> IF servicio.protocolo = <<"UDP">> THEN Str(servicio.puerto) ELSE <<>>,
   active |-> <<"true">>,
   actions |-> <<"output=">> \o Str(src_ap.port)])

\* mutant: the inbound flow is pushed before the outbound flow
CompileFlows_OtroOrden(alumno, servidor, servicio, handler, src_ap) ==
  <<arp_flow(alumno, servidor, servicio, handler, src_ap),
    arp_reply_flow(alumno, servidor, servicio, handler, src_ap),
    inbound_flow(alumno, servidor, servicio, handler, src_ap),
    outbound_flow(alumno, servidor, servicio, handler, src_ap)>>

\* the four descriptors in the order build_route pushes them
CompileFlows(alumno, servidor, servicio, handler, src_ap) ==
  <<arp_flow(alumno, servidor, servicio, handler, src_ap),
    arp_reply_flow(alumno, servidor, servicio, handler, src_ap),
    outbound_flow(alumno, servidor, servicio, handler, src_ap),
    inbound_flow(alumno, servidor, servicio, handler, src_ap)>>

\* one push_flow call as the controller saw it
PushCall(flow_entry, ack) == [flow |-> flow_entry, ack |-> ack]

\* the address build_route resolves for the server
DummyMac == <<"d", "u", "m", "m", "y">>

\* mutant: success is what the last push returned
build_route_UltimoPush(alumno, servidor, servicio, handler, src_ap, dst_ap, route, acks) ==
  LET local  == dst_ap.kind = "ap" /\ src_ap.dpid = dst_ap.dpid
      compiled == CompileFlows(alumno, servidor, servicio, handler, src_ap)
      pushes == [i \in 1..4 |-> PushCall(compiled[i], acks[i])]
  IN
  IF src_ap = Fault
  THEN [status |-> "fault", src_ap |-> "fault", devq |-> 1, routeq |-> 0, pushes |-> <<>>]
  ELSE IF dst_ap = Fault
  THEN [status |-> "fault", src_ap |-> src_ap.kind, devq |-> 2, routeq |-> 0, pushes |-> <<>>]
  ELSE IF src_ap = NotFound
  THEN [status |-> "fail", src_ap |-> "none", devq |-> 2, routeq |-> 0, pushes |-> <<>>]
  ELSE IF ~local /\ route = "malformed"
  THEN [status |-> "fault", src_ap |-> "ap", devq |-> 2, routeq |-> 1, pushes |-> <<>>]
  ELSE [status |-> IF acks[4] THEN "ok" ELSE "fail",
        src_ap |-> "ap", devq |-> 2, routeq |-> IF local THEN 0 ELSE 1,
        pushes |-> pushes]

\* build_route from "2. Calcular la ruta entre switches" on.  src_ap, dst_ap:
\* what the two get_attachment_point calls returned; route: the outcome of the
\* route request; acks[i]: whether push i was acknowledged.  Returns the
\* status and the controller calls made.
build_route(alumno, servidor, servicio, handler, src_ap, dst_ap, route, acks) ==
  LET local  == dst_ap.kind = "ap" /\ src_ap.dpid = dst_ap.dpid
      compiled == CompileFlows(alumno, servidor, servicio, handler, src_ap)
      pushes == [i \in 1..4 |-> PushCall(compiled[i], acks[i])]
  IN
  IF src_ap = Fault
  THEN [status |-> "fault", src_ap |-> "fault", devq |-> 1, routeq |-> 0, pushes |-> <<>>]
  ELSE IF dst_ap = Fault
  THEN [status |-> "fault", src_ap |-> src_ap.kind, devq |-> 2, routeq |-> 0, pushes |-> <<>>]
  ELSE IF src_ap = NotFound
  THEN [status |-> "fail", src_ap |-> "none", devq |-> 2, routeq |-> 0, pushes |-> <<>>]
  ELSE IF ~local /\ route = "malformed"
  THEN [status |-> "fault", src_ap |-> "ap", devq |-> 2, routeq |-> 1, pushes |-> <<>>]
  ELSE [status |-> IF \A i \in 1..4 : acks[i] THEN "ok" ELSE "fail",
        src_ap |-> "ap", devq |-> 2, routeq |-> IF local THEN 0 ELSE 1,
        pushes |-> pushes]

\* one delete_flow call as the controller saw it
DeleteCall(dpid, flow_name, ack) == [switch |-> dpid, name |-> flow_name, ack |-> ack]

\* mutant: the first name is not the one build_route gave the flow
flows_to_delete_OtroNombre(handler) ==
  <<handler \o <<"_arp">>, handler \o <<"_arp_reply">>,
    handler \o <<"_outbound">>, handler \o <<"_inbound">>>>

flows_to_delete(handler) ==
  <<handler \o <<"_arp_request">>, handler \o <<"_arp_reply">>,
    handler \o <<"_outbound">>, handler \o <<"_inbound">>>>

\* mutant: success when some delete was acknowledged
delete_route_AlgunAck(handler, dpid, acks) ==
  [success |-> \E i \in 1..4 : acks[i],
   deletes |-> [i \in 1..4 |-> DeleteCall(dpid, flows_to_delete(handler)[i], acks[i])]]

\* delete_route: the four delete calls and whether all were acknowledged
delete_route(handler, dpid, acks) ==
  [success |-> \A i \in 1..4 : acks[i],
   deletes |-> [i \in 1..4 |-> DeleteCall(dpid, flows_to_delete(handler)[i], acks[i])]]

\* the controller's static flow table after the acknowledged pushes
AfterPushes(table, pushes) ==
  table \cup {[switch |-> pushes[i].flow.switch, name |-> pushes[i].flow.name] :
                i \in {j \in 1..Len(pushes) : pushes[j].ack}}

\* the controller's static flow table after the acknowledged deletes
AfterDeletes(table, deletes) ==
  table \ {[switch |-> deletes[i].switch, name |-> deletes[i].name] :
             i \in {j \in 1..Len(deletes) : deletes[j].ack}}


----------------------------------------------------------------------------
(* Inputs explored *)

Codigos == {"20211049", "20210000"}
ServerNames == {"Srv1", "Srv2"}
ServiceNames == {"ssh", "dns"}

MacColon == <<"a", "a", ":", "b", "b">>
MacDash == <<"a", "a", "-", "b", "b">>
MacPlain == <<"A", "A", "B", "B">>

\* a policy file.  Course C1 is the end-to-end scenario of the specification;
\* course C2 lists a principal twice, a principal that is in the principal
\* table only once the menu has created it, and binds Srv1 twice
Data(estado) ==
  [alumnos |-> <<[nombre |-> "Alexia", codigo |-> "20211049", mac |-> MacColon]>>,
   servidores |-> <<[nombre |-> "Srv1", ip |-> <<"10.0.0.5">>,
                     servicios |-> <<[nombre |-> "ssh", protocolo |-> <<"tcp">>, puerto |-> 22],
                                     [nombre |-> "dns", protocolo |-> <<"UDP">>, puerto |-> 53]>>],
                    [nombre |-> "Srv2", ip |-> <<"10.0.0.6">>,
                     servicios |-> <<[nombre |-> "dns", protocolo |-> <<"udp">>, puerto |-> 53]>>]>>,
   cursos |-> <<[codigo |-> "C1", nombre |-> "TEL354", estado |-> estado,
                 alumnos |-> <<"20211049">>,
                 servidores |-> <<[nombre |-> "Srv1", servicios_permitidos |-> <<"ssh">>]>>],
                [codigo |-> "C2", nombre |-> "TEL141", estado |-> <<"DICTANDO">>,
                 alumnos |-> <<"20210000", "20210000">>,
                 servidores |-> <<[nombre |-> "Srv1", servicios_permitidos |-> <<>>],
                                  [nombre |-> "Srv1", servicios_permitidos |-> <<"dns">>],
                                  [nombre |-> "Srv2", servicios_permitidos |-> <<"ssh", "dns">>]>>]>>]

Datasets == {Data(<<"dictando">>), Data(<<"inactivo">>)}

Device(macs, aps) ==
  [hasMac |-> TRUE, mac |-> macs, hasAP |-> TRUE, attachmentPoint |-> aps]

AttachmentPoint(dpid, port) ==
  [wellFormed |-> TRUE, switchDPID |-> dpid, port |-> port]

\* the device inventories the controller may report: none; the principal on
\* switch s1 next to a device whose address normalizes to "DUMMY"; the
\* principal on switch s2, after a record without attachment point; a record
\* with an empty address list; an attachment point without its fields
Inventories ==
  { <<>>,
    <<Device(<<MacColon>>, <<AttachmentPoint(<<"s1">>, 1)>>),
      Device(<<<<"d", "u", "m", "m", "y">>>>, <<AttachmentPoint(<<"s1">>, 3)>>)>>,
    <<Device(<<MacDash>>, <<>>), Device(<<MacPlain>>, <<AttachmentPoint(<<"s2">>, 2)>>)>>,
    <<Device(<<>>, <<>>)>>,
    <<Device(<<MacColon>>, <<[wellFormed |-> FALSE, switchDPID |-> <<>>, port |-> 0]>>)>> }

\* the answers to a device request: an inventory, or the request raises
DeviceResponses ==
  {[ok |-> TRUE, devices |-> inventory] : inventory \in Inventories}
    \cup {[ok |-> FALSE, devices |-> <<>>]}

AllAcked == [i \in 1..4 |-> TRUE]

\* acknowledgements of four consecutive pushes or deletes: all, all but the
\* first, all but the last, none
Acks ==
  { AllAcked, [i \in 1..4 |-> i /= 1], [i \in 1..4 |-> i /= 4],
    [i \in 1..4 |-> FALSE] }

\* f"conn_{n:04d}"
Handler(n) == <<"conn_">> \o Fmt04d(n)

Handlers == {Handler(n) : n \in 1..(MaxCounter + 1)}

----------------------------------------------------------------------------
(* SDNApplication *)

\* what the last operation returned and the controller calls it made
Outcome(op, args, status, reason, handler, src_ap, devq, routeq, pushes, deletes) ==
  [op |-> op, args |-> args, status |-> status, reason |-> reason,
   handler |-> handler, src_ap |-> src_ap, devq |-> devq, routeq |-> routeq,
   pushes |-> pushes, deletes |-> deletes]

\* an operation that returned without calling the controller
Local(op, args, status, reason) ==
  Outcome(op, args, status, reason, None, "", 0, 0, <<>>, <<>>)

\* the threads that may call crear_conexion at the same time
Threads == {1, 2}

\* the local variables of a crear_conexion call: the statement it is at, its
\* arguments, handler (line 499), the counter value read by += (line 500)
\* and the value returned
Call(pc, args, handler, counter, result) ==
  [pc |-> pc, args |-> args, handler |-> handler, counter |-> counter,
   result |-> result]

NoCalls == [t \in Threads |-> Call("idle", <<>>, None, 0, None)]

Init ==
  /\ alumnos = EmptyDict
  /\ cursos = EmptyDict
  /\ servidores = EmptyDict
  /\ conexiones = EmptyDict
  /\ connection_counter = 1
  /\ flows = {}
  /\ issued = <<>>
  /\ last = Local("init", <<>>, "ok", "")
  /\ calls = NoCalls

RECURSIVE ImportAlumnos(_, _, _)
ImportAlumnos(tabla, lista, i) ==
  IF i > Len(lista) THEN tabla
  ELSE LET alumno == Alumno(lista[i].nombre, lista[i].codigo, lista[i].mac)
       IN ImportAlumnos(Put(tabla, alumno.codigo, alumno), lista, i + 1)

RECURSIVE ImportServicios(_, _, _)
ImportServicios(servidor, lista, i) ==
  IF i > Len(lista) THEN servidor
  ELSE LET servicio == Servicio(lista[i].nombre, lista[i].protocolo, lista[i].puerto)
       IN ImportServicios(agregar_servicio(servidor, servicio), lista, i + 1)

RECURSIVE ImportServidores(_, _, _)
ImportServidores(tabla, lista, i) ==
  IF i > Len(lista) THEN tabla
  ELSE LET servidor == ImportServicios(Servidor(lista[i].nombre, lista[i].ip),
                                       lista[i].servicios, 1)
       IN ImportServidores(Put(tabla, servidor.nombre, servidor), lista, i + 1)

RECURSIVE ImportCursoAlumnos(_, _, _)
ImportCursoAlumnos(curso, lista, i) ==
  IF i > Len(lista) THEN curso
  ELSE ImportCursoAlumnos(agregar_alumno(curso, lista[i]), lista, i + 1)

RECURSIVE ImportCursoServidores(_, _, _)
ImportCursoServidores(curso, lista, i) ==
  IF i > Len(lista) THEN curso
  ELSE LET servidor_permitido ==
             ServidorPermitido(lista[i].nombre, lista[i].servicios_permitidos)
       IN ImportCursoServidores(agregar_servidor(curso, servidor_permitido), lista, i + 1)

RECURSIVE ImportCursos(_, _, _)
ImportCursos(tabla, lista, i) ==
  IF i > Len(lista) THEN tabla
  ELSE LET curso0 == Curso(lista[i].codigo, lista[i].nombre, lista[i].estado)
           curso1 == ImportCursoAlumnos(curso0, lista[i].alumnos, 1)
           curso  == ImportCursoServidores(curso1, lista[i].servidores, 1)
       IN ImportCursos(Put(tabla, curso.codigo, curso), lista, i + 1)

\* mutant: importing starts from an empty connection table
importar_datos_ReiniciaConexiones(data, readable) ==
  /\ IF readable
     THEN /\ alumnos' = ImportAlumnos(alumnos, data.alumnos, 1)
          /\ servidores' = ImportServidores(servidores, data.servidores, 1)
          /\ cursos' = ImportCursos(cursos, data.cursos, 1)
          /\ conexiones' = EmptyDict
          /\ last' = Local("importar_datos", <<>>, "ok", "")
     ELSE /\ UNCHANGED <<alumnos, servidores, cursos, conexiones>>
          /\ last' = Local("importar_datos", <<>>, "fail", "Error importando datos")
  /\ UNCHANGED <<calls, connection_counter, flows, issued>>

\* mutant: importing replaces the principal table
importar_datos_ReemplazaAlumnos(data, readable) ==
  /\ IF readable
     THEN /\ alumnos' = ImportAlumnos(EmptyDict, data.alumnos, 1)
          /\ servidores' = ImportServidores(servidores, data.servidores, 1)
          /\ cursos' = ImportCursos(cursos, data.cursos, 1)
          /\ last' = Local("importar_datos", <<>>, "ok", "")
     ELSE /\ UNCHANGED <<alumnos, servidores, cursos>>
          /\ last' = Local("importar_datos", <<>>, "fail", "Error importando datos")
  /\ UNCHANGED <<calls, conexiones, connection_counter, flows, issued>>

\* importar_datos(archivo_yaml); readable: whether the file could be opened
importar_datos(data, readable) ==
  /\ IF readable
     THEN /\ alumnos' = ImportAlumnos(alumnos, data.alumnos, 1)
          /\ servidores' = ImportServidores(servidores, data.servidores, 1)
          /\ cursos' = ImportCursos(cursos, data.cursos, 1)
          /\ last' = Local("importar_datos", <<>>, "ok", "")
     ELSE /\ UNCHANGED <<alumnos, servidores, cursos>>
          /\ last' = Local("importar_datos", <<>>, "fail", "Error importando datos")
  /\ UNCHANGED <<calls, conexiones, connection_counter, flows, issued>>

\* menu 4.1: "Crear alumno"
CrearAlumno(nombre, codigo, mac) ==
  /\ IF codigo \in DOMAIN alumnos
     THEN /\ UNCHANGED alumnos
          /\ last' = Local("crear_alumno", <<codigo>>, "fail", "Ya existe un alumno con ese codigo")
     ELSE /\ alumnos' = Put(alumnos, codigo, Alumno(nombre, codigo, mac))
          /\ last' = Local("crear_alumno", <<codigo>>, "ok", "")
  /\ UNCHANGED <<calls, servidores, cursos, conexiones, connection_counter,
                 flows, issued>>

\* Curso.remover_alumno called on a course of the table
RemoverAlumno(codigo_curso, codigo_alumno) ==
  /\ codigo_curso \in DOMAIN cursos
  /\ cursos' = [cursos EXCEPT ![codigo_curso] = remover_alumno(@, codigo_alumno)]
  /\ last' = Local("remover_alumno", <<codigo_curso, codigo_alumno>>, "ok", "")
  /\ UNCHANGED <<calls, alumnos, servidores, conexiones, connection_counter, flows, issued>>

verificar_autorizacion(tabla_cursos, codigo_alumno, nombre_servidor, nombre_servicio) ==
  \E c \in DOMAIN tabla_cursos :
     alumno_tiene_acceso_servicio(tabla_cursos[c], codigo_alumno, nombre_servidor,
                                  nombre_servicio)

\* mutant: the authorization is not verified
CrearConexionError_SinAutorizacion(codigo_alumno, nombre_servidor, nombre_servicio) ==
  IF codigo_alumno \notin DOMAIN alumnos THEN "Alumno no encontrado"
  ELSE IF nombre_servidor \notin DOMAIN servidores THEN "Servidor no encontrado"
  ELSE IF obtener_servicio(servidores[nombre_servidor], nombre_servicio) = None
       THEN "Servicio no encontrado"
  ELSE ""

\* the local checks of crear_conexion: "" when all pass, else the error printed
CrearConexionError(codigo_alumno, nombre_servidor, nombre_servicio) ==
  IF codigo_alumno \notin DOMAIN alumnos THEN "Alumno no encontrado"
  ELSE IF nombre_servidor \notin DOMAIN servidores THEN "Servidor no encontrado"
  ELSE IF obtener_servicio(servidores[nombre_servidor], nombre_servicio) = None
       THEN "Servicio no encontrado"
  ELSE IF ~verificar_autorizacion(cursos, codigo_alumno, nombre_servidor, nombre_servicio)
       THEN "no tiene autorizacion"
  ELSE ""

\* a request the operation never makes has no answer to choose
Unasked(made, answers, default) == IF made THEN answers ELSE {default}

NoResponse == [ok |-> TRUE, devices |-> <<>>]

\* mutant: the handler is generated before the local checks
CrearConexionRechazada_Cuenta(codigo_alumno, nombre_servidor, nombre_servicio) ==
  LET error == CrearConexionError(codigo_alumno, nombre_servidor, nombre_servicio) IN
  /\ error /= ""
  /\ connection_counter <= MaxCounter
  /\ connection_counter' = connection_counter + 1
  /\ last' = Local("crear_conexion", <<codigo_alumno, nombre_servidor, nombre_servicio>>,
                   "fail", error)
  /\ UNCHANGED <<calls, alumnos, servidores, cursos, conexiones, flows, issued>>

\* crear_conexion returning None before the handler is generated
CrearConexionRechazada(codigo_alumno, nombre_servidor, nombre_servicio) ==
  LET error == CrearConexionError(codigo_alumno, nombre_servidor, nombre_servicio) IN
  /\ error /= ""
  /\ last' = Local("crear_conexion", <<codigo_alumno, nombre_servidor, nombre_servicio>>,
                   "fail", error)
  /\ UNCHANGED <<calls, alumnos, servidores, cursos, conexiones, connection_counter,
                 flows, issued>>

\* mutant: the result of build_route is ignored, the connection is recorded
CrearConexionRuta_IgnoraResultado(codigo_alumno, nombre_servidor, nombre_servicio, r) ==
  LET handler == Handler(connection_counter)
      args    == <<codigo_alumno, nombre_servidor, nombre_servicio>>
  IN
  /\ connection_counter' = connection_counter + 1
  /\ flows' = AfterPushes(flows, r.pushes)
  /\ IF r.status /= "fault"
     THEN /\ conexiones' = Put(conexiones, handler,
                               Conexion(handler, codigo_alumno, nombre_servidor, nombre_servicio))
          /\ issued' = Append(issued, handler)
          /\ last' = Outcome("crear_conexion", args, "ok", "", handler,
                             r.src_ap, r.devq, r.routeq, r.pushes, <<>>)
     ELSE /\ UNCHANGED <<conexiones, issued>>
          /\ last' = Outcome("crear_conexion", args, r.status, "excepcion no capturada", None,
                             r.src_ap, r.devq, r.routeq, r.pushes, <<>>)
  /\ UNCHANGED <<calls, alumnos, servidores, cursos>>

\* mutant: the handler is numbered by the size of the connection table
CrearConexionRuta_HandlerPorTabla(codigo_alumno, nombre_servidor, nombre_servicio, r) ==
  LET handler == Handler(Cardinality(DOMAIN conexiones) + 1)
      args    == <<codigo_alumno, nombre_servidor, nombre_servicio>>
  IN
  /\ connection_counter' = connection_counter + 1
  /\ flows' = AfterPushes(flows, r.pushes)
  /\ IF r.status = "ok"
     THEN /\ conexiones' = Put(conexiones, handler,
                               Conexion(handler, codigo_alumno, nombre_servidor, nombre_servicio))
          /\ issued' = Append(issued, handler)
          /\ last' = Outcome("crear_conexion", args, "ok", "", handler,
                             r.src_ap, r.devq, r.routeq, r.pushes, <<>>)
     ELSE /\ UNCHANGED <<conexiones, issued>>
          /\ last' = Outcome("crear_conexion", args, r.status,
                             IF r.status = "fault" THEN "excepcion no capturada"
                             ELSE "Error creando la ruta", None,
                             r.src_ap, r.devq, r.routeq, r.pushes, <<>>)
  /\ UNCHANGED <<calls, alumnos, servidores, cursos>>

\* crear_conexion from "Generar handler unico" on; r: what build_route did
CrearConexionRuta(codigo_alumno, nombre_servidor, nombre_servicio, r) ==
  LET handler == Handler(connection_counter)
      args    == <<codigo_alumno, nombre_servidor, nombre_servicio>>
  IN
  /\ connection_counter' = connection_counter + 1
  /\ flows' = AfterPushes(flows, r.pushes)
  /\ IF r.status = "ok"
     THEN /\ conexiones' = Put(conexiones, handler,
                               Conexion(handler, codigo_alumno, nombre_servidor, nombre_servicio))
          /\ issued' = Append(issued, handler)
          /\ last' = Outcome("crear_conexion", args, "ok", "", handler,
                             r.src_ap, r.devq, r.routeq, r.pushes, <<>>)
     ELSE /\ UNCHANGED <<conexiones, issued>>
          /\ last' = Outcome("crear_conexion", args, r.status,
                             IF r.status = "fault" THEN "excepcion no capturada"
                             ELSE "Error creando la ruta", None,
                             r.src_ap, r.devq, r.routeq, r.pushes, <<>>)
  /\ UNCHANGED <<calls, alumnos, servidores, cursos>>

crear_conexion(codigo_alumno, nombre_servidor, nombre_servicio) ==
  \/ CrearConexionRechazada(codigo_alumno, nombre_servidor, nombre_servicio)
  \/ /\ CrearConexionError(codigo_alumno, nombre_servidor, nombre_servicio) = ""
     /\ connection_counter <= MaxCounter
     /\ \E dev1 \in DeviceResponses :
        \E src_ap \in {get_attachment_point(get_devices(dev1), alumnos[codigo_alumno].mac)} :
        \E dev2 \in Unasked(src_ap /= Fault, DeviceResponses, NoResponse) :
        \E dst_ap \in {get_attachment_point(get_devices(dev2), DummyMac)} :
        \E route \in Unasked(src_ap.kind = "ap" /\ dst_ap /= Fault
                               /\ ~(dst_ap.kind = "ap" /\ dst_ap.dpid = src_ap.dpid),
                             RouteOutcomes, "path") :
        \E acks \in Unasked(src_ap.kind = "ap" /\ dst_ap /= Fault /\ route /= "malformed",
                            Acks, AllAcked) :
        \E servicio \in {obtener_servicio(servidores[nombre_servidor], nombre_servicio)[1]} :
        \E r \in {build_route(alumnos[codigo_alumno], servidores[nombre_servidor], servicio,
                              Handler(connection_counter), src_ap, dst_ap, route, acks)} :
          CrearConexionRuta(codigo_alumno, nombre_servidor, nombre_servicio, r)

\* mutant: an unknown handler is reported as eliminated
EliminarConexionDesconocida_Exito(handler) ==
  /\ handler \notin DOMAIN conexiones
  /\ last' = Local("eliminar_conexion", <<handler>>, "ok", "")
  /\ UNCHANGED <<calls, alumnos, servidores, cursos, conexiones, connection_counter,
                 flows, issued>>

\* eliminar_conexion for a handler that is not in the table
EliminarConexionDesconocida(handler) ==
  /\ handler \notin DOMAIN conexiones
  /\ last' = Local("eliminar_conexion", <<handler>>, "fail", "no encontrada")
  /\ UNCHANGED <<calls, alumnos, servidores, cursos, conexiones, connection_counter,
                 flows, issued>>

\* mutant: the record is marked inactive instead of being deleted
EliminarConexionRuta_MarcaInactiva(handler, attachment_point, devq, acks) ==
  /\ IF attachment_point.kind = "ap"
     THEN LET d == delete_route(handler, attachment_point.dpid, acks) IN
          /\ flows' = AfterDeletes(flows, d.deletes)
          /\ IF d.success
             THEN /\ conexiones' = [conexiones EXCEPT ![handler].activa = FALSE]
                  /\ last' = Outcome("eliminar_conexion", <<handler>>, "ok", "", None,
                                     "ap", devq, 0, <<>>, d.deletes)
             ELSE /\ UNCHANGED conexiones
                  /\ last' = Outcome("eliminar_conexion", <<handler>>, "fail",
                                     "Error eliminando la conexion", None,
                                     "ap", devq, 0, <<>>, d.deletes)
     ELSE /\ UNCHANGED <<flows, conexiones>>
          /\ last' = Outcome("eliminar_conexion", <<handler>>,
                             IF attachment_point = Fault THEN "fault" ELSE "fail",
                             IF attachment_point = Fault THEN "excepcion no capturada"
                             ELSE "Error eliminando la conexion", None,
                             attachment_point.kind, devq, 0, <<>>, <<>>)
  /\ UNCHANGED <<calls, alumnos, servidores, cursos, connection_counter, issued>>

\* mutant: the record is deleted whatever delete_route returned
EliminarConexionRuta_BorraSiempre(handler, attachment_point, devq, acks) ==
  /\ IF attachment_point.kind = "ap"
     THEN LET d == delete_route(handler, attachment_point.dpid, acks) IN
          /\ flows' = AfterDeletes(flows, d.deletes)
          /\ conexiones' = Del(conexiones, handler)
          /\ last' = Outcome("eliminar_conexion", <<handler>>,
                             IF d.success THEN "ok" ELSE "fail",
                             IF d.success THEN "" ELSE "Error eliminando la conexion",
                             None, "ap", devq, 0, <<>>, d.deletes)
     ELSE /\ UNCHANGED <<flows, conexiones>>
          /\ last' = Outcome("eliminar_conexion", <<handler>>,
                             IF attachment_point = Fault THEN "fault" ELSE "fail",
                             IF attachment_point = Fault THEN "excepcion no capturada"
                             ELSE "Error eliminando la conexion", None,
                             attachment_point.kind, devq, 0, <<>>, <<>>)
  /\ UNCHANGED <<calls, alumnos, servidores, cursos, connection_counter, issued>>

\* eliminar_conexion for a recorded handler; attachment_point: what
\* get_attachment_point returned (Fault also when self.alumnos[...] raised,
\* devq requests earlier)
EliminarConexionRuta(handler, attachment_point, devq, acks) ==
  /\ IF attachment_point.kind = "ap"
     THEN LET d == delete_route(handler, attachment_point.dpid, acks) IN
          /\ flows' = AfterDeletes(flows, d.deletes)
          /\ IF d.success
             THEN /\ conexiones' = Del(conexiones, handler)
                  /\ last' = Outcome("eliminar_conexion", <<handler>>, "ok", "", None,
                                     "ap", devq, 0, <<>>, d.deletes)
             ELSE /\ UNCHANGED conexiones
                  /\ last' = Outcome("eliminar_conexion", <<handler>>, "fail",
                                     "Error eliminando la conexion", None,
                                     "ap", devq, 0, <<>>, d.deletes)
     ELSE /\ UNCHANGED <<flows, conexiones>>
          /\ last' = Outcome("eliminar_conexion", <<handler>>,
                             IF attachment_point = Fault THEN "fault" ELSE "fail",
                             IF attachment_point = Fault THEN "excepcion no capturada"
                             ELSE "Error eliminando la conexion", None,
                             attachment_point.kind, devq, 0, <<>>, <<>>)
  /\ UNCHANGED <<calls, alumnos, servidores, cursos, connection_counter, issued>>

eliminar_conexion(handler) ==
  \/ EliminarConexionDesconocida(handler)
  \/ /\ handler \in DOMAIN conexiones
     /\ \E known \in {conexiones[handler].codigo_alumno \in DOMAIN alumnos} :
        \E dev \in Unasked(known, DeviceResponses, NoResponse) :
        \E attachment_point \in
             {IF known
              THEN get_attachment_point(get_devices(dev),
                                        alumnos[conexiones[handler].codigo_alumno].mac)
              ELSE Fault} :
        \E acks \in Unasked(attachment_point.kind = "ap", Acks, AllAcked) :
          EliminarConexionRuta(handler, attachment_point, IF known THEN 1 ELSE 0, acks)

Importar == \E data \in Datasets, readable \in BOOLEAN : importar_datos(data, readable)

MenuAlumnos == CrearAlumno("Invitado", "20210000", MacDash)

\* the enrolment of the end-to-end scenario is withdrawn
Remover == RemoverAlumno("C1", "20211049")

Create == \E P \in Codigos, X \in ServerNames, S \in ServiceNames : crear_conexion(P, X, S)

Destroy == \E h \in Handlers : eliminar_conexion(h)

Next ==
  \/ Importar
  \/ MenuAlumnos
  \/ Remover
  \/ Create
  \/ Destroy

Spec == Init /\ [][Next]_vars

\* crear_conexion is entered by thread t: the local checks (lines 476-496)
Entrar(t, codigo_alumno, nombre_servidor, nombre_servicio) ==
  LET args == <<codigo_alumno, nombre_servidor, nombre_servicio>> IN
  /\ calls[t].pc = "idle"
  /\ calls' = [calls EXCEPT ![t] =
       IF CrearConexionError(codigo_alumno, nombre_servidor, nombre_servicio) = ""
       THEN Call("handler", args, None, 0, None)
       ELSE Call("done", args, None, 0, None)]
  /\ UNCHANGED <<alumnos, servidores, cursos, conexiones, connection_counter,
                 flows, issued, last>>

\* line 499: handler = f"conn_{self.connection_counter:04d}"
GenerarHandler(t) ==
  /\ calls[t].pc = "handler"
  /\ calls' = [calls EXCEPT ![t].pc = "load",
                            ![t].handler = Handler(connection_counter)]
  /\ UNCHANGED <<alumnos, servidores, cursos, conexiones, connection_counter,
                 flows, issued, last>>

\* line 500, self.connection_counter += 1: the attribute is read
LeerContador(t) ==
  /\ calls[t].pc = "load"
  /\ calls' = [calls EXCEPT ![t].pc = "store", ![t].counter = connection_counter]
  /\ UNCHANGED <<alumnos, servidores, cursos, conexiones, connection_counter,
                 flows, issued, last>>

\* line 500, self.connection_counter += 1: the sum is stored
EscribirContador(t) ==
  /\ calls[t].pc = "store"
  /\ connection_counter' = calls[t].counter + 1
  /\ calls' = [calls EXCEPT ![t].pc = "build"]
  /\ UNCHANGED <<alumnos, servidores, cursos, conexiones, flows, issued, last>>

\* lines 503-504 and 510-512: build_route and the branch on its result
ConstruirRuta(t) ==
  LET codigo_alumno   == calls[t].args[1]
      nombre_servidor == calls[t].args[2]
      nombre_servicio == calls[t].args[3]
  IN
  /\ calls[t].pc = "build"
  /\ \E dev1 \in DeviceResponses :
     \E src_ap \in {get_attachment_point(get_devices(dev1), alumnos[codigo_alumno].mac)} :
     \E dev2 \in Unasked(src_ap /= Fault, DeviceResponses, NoResponse) :
     \E dst_ap \in {get_attachment_point(get_devices(dev2), DummyMac)} :
     \E route \in Unasked(src_ap.kind = "ap" /\ dst_ap /= Fault
                            /\ ~(dst_ap.kind = "ap" /\ dst_ap.dpid = src_ap.dpid),
                          RouteOutcomes, "path") :
     \E acks \in Unasked(src_ap.kind = "ap" /\ dst_ap /= Fault /\ route /= "malformed",
                         Acks, AllAcked) :
     \E servicio \in {obtener_servicio(servidores[nombre_servidor], nombre_servicio)[1]} :
     \E r \in {build_route(alumnos[codigo_alumno], servidores[nombre_servidor], servicio,
                           calls[t].handler, src_ap, dst_ap, route, acks)} :
       /\ flows' = AfterPushes(flows, r.pushes)
       /\ calls' = [calls EXCEPT ![t].pc = IF r.status = "ok" THEN "record" ELSE "done"]
  /\ UNCHANGED <<alumnos, servidores, cursos, conexiones, connection_counter,
                 issued, last>>

\* mutant: a handler that is already in the table keeps its record
Registrar_SinSobrescribir(t) ==
  LET handler == calls[t].handler IN
  /\ calls[t].pc = "record"
  /\ conexiones' = IF handler \in DOMAIN conexiones THEN conexiones
                   ELSE Put(conexiones, handler,
                            Conexion(handler, calls[t].args[1], calls[t].args[2],
                                     calls[t].args[3]))
  /\ issued' = Append(issued, handler)
  /\ calls' = [calls EXCEPT ![t].pc = "done", ![t].result = handler]
  /\ UNCHANGED <<alumnos, servidores, cursos, connection_counter, flows, last>>

\* lines 506-509: the Conexion is stored under the handler and the handler
\* returned
Registrar(t) ==
  LET handler == calls[t].handler IN
  /\ calls[t].pc = "record"
  /\ conexiones' = Put(conexiones, handler,
                       Conexion(handler, calls[t].args[1], calls[t].args[2],
                                calls[t].args[3]))
  /\ issued' = Append(issued, handler)
  /\ calls' = [calls EXCEPT ![t].pc = "done", ![t].result = handler]
  /\ UNCHANGED <<alumnos, servidores, cursos, connection_counter, flows, last>>

Llamar ==
  \E t \in Threads, P \in Codigos, X \in ServerNames, S \in ServiceNames :
     Entrar(t, P, X, S)

Generar == \E t \in Threads : GenerarHandler(t)

Incrementar == \E t \in Threads : LeerContador(t) \/ EscribirContador(t)

Ruta == \E t \in Threads : ConstruirRuta(t)

Registro == \E t \in Threads : Registrar(t)

\* crear_conexion called from two threads without mutual exclusion, each
\* thread once
ConcNext ==
  \/ Importar
  \/ MenuAlumnos
  \/ Llamar
  \/ Generar
  \/ Incrementar
  \/ Ruta
  \/ Registro

ConcSpec == Init /\ [][ConcNext]_vars

\* the handlers crear_conexion can have recorded
HandlersEmitidos == {Handler(n) : n \in 1..MaxCounter}

\* the database of the end-to-end scenario is loaded
ImportarDictando == importar_datos(Data(<<"dictando">>), TRUE)

\* the enrolled principal asks for the ssh service of Srv1
CrearSsh == crear_conexion("20211049", "Srv1", "ssh")

\* eliminar_conexion(handler) in which the controller resolves the attachment
\* point and acknowledges the four deletes
EliminarConexionLograda(handler) ==
  /\ eliminar_conexion(handler)
  /\ last'.status = "ok"

\* the operations a connection goes through
FairNext ==
  \/ ImportarDictando
  \/ CrearSsh
  \/ Destroy

\* eliminar_conexion is repeated on every recorded handler until the
\* controller lets one call through
FairSpec ==
  /\ Init
  /\ [][FairNext]_vars
  /\ \A handler \in HandlersEmitidos : WF_vars(EliminarConexionLograda(handler))


TypeOK ==
  /\ connection_counter \in 1..(MaxCounter + 1)
  /\ DOMAIN alumnos \subseteq Codigos
  /\ DOMAIN servidores \subseteq ServerNames
  /\ DOMAIN conexiones \subseteq Handlers
  /\ last.status \in {"ok", "fail", "fault"}

----------------------------------------------------------------------------
(* Claims *)

\* the authorization the specification states: some course enrols the
\* principal, is being taught, and has some binding that names the server and
\* lists the service
Authorized(tabla_cursos, P, X, S) ==
  \E c \in DOMAIN tabla_cursos :
     /\ InSeq(P, tabla_cursos[c].alumnos)
     /\ tabla_cursos[c].estado = <<"DICTANDO">>
     /\ \E i \in 1..Len(tabla_cursos[c].servidores) :
          /\ tabla_cursos[c].servidores[i].nombre = X
          /\ InSeq(S, tabla_cursos[c].servidores[i].servicios_permitidos)

\* the principal, the server and the service on that server all exist
Known(P, X, S) ==
  /\ P \in DOMAIN alumnos
  /\ X \in DOMAIN servidores
  /\ obtener_servicio(servidores[X], S) /= None

NoControllerCall(outcome) ==
  /\ outcome.devq = 0
  /\ outcome.routeq = 0
  /\ outcome.pushes = <<>>
  /\ outcome.deletes = <<>>

C2_AuthorizationIsExistence ==
  \A P \in Codigos, X \in ServerNames, S \in ServiceNames :
     verificar_autorizacion(cursos, P, X, S) <=> Authorized(cursos, P, X, S)

\* C3: a crear_conexion for which the authorization predicate is false fails
\* without any controller call (no device query, no route query, no push) and
\* leaves the connection table unchanged.
C3_UnauthorizedIsLocal ==
  [][(/\ last'.op = "crear_conexion"
      /\ ~verificar_autorizacion(cursos, last'.args[1], last'.args[2], last'.args[3]))
     => /\ last'.status = "fail"
        /\ last'.handler = None
        /\ NoControllerCall(last')
        /\ conexiones' = conexiones
        /\ flows' = flows]_vars

\* the negative scenario: the only course that enrols the principal and
\* allows ssh on Srv1 is not being taught, and crear_conexion was refused
C3_Witness ==
  /\ last.op = "crear_conexion"
  /\ last.args = <<"20211049", "Srv1", "ssh">>
  /\ last.reason = "no tiene autorizacion"
  /\ "C1" \in DOMAIN cursos
  /\ cursos["C1"].estado = <<"INACTIVO">>
  /\ InSeq("20211049", cursos["C1"].alumnos)

\* C4: a crear_conexion that names a principal, a server or a service of that
\* server that does not exist fails without any controller call and changes
\* neither the connection table, nor the handler counter, nor the policy
\* tables.
C4_UnknownEntityIsLocal ==
  [][(/\ last'.op = "crear_conexion"
      /\ ~Known(last'.args[1], last'.args[2], last'.args[3]))
     => /\ last'.status = "fail"
        /\ last'.handler = None
        /\ last'.reason \in {"Alumno no encontrado", "Servidor no encontrado",
                             "Servicio no encontrado"}
        /\ NoControllerCall(last')
        /\ UNCHANGED <<conexiones, connection_counter, alumnos, servidores,
                       cursos, flows>>]_vars

\* crear_conexion was refused for a service the (existing) server does not
\* offer, with a principal that exists
C4_Witness ==
  /\ last.op = "crear_conexion"
  /\ last.reason = "Servicio no encontrado"
  /\ last.args[1] \in DOMAIN alumnos
  /\ last.args[2] \in DOMAIN servidores

\* C5: an authorized crear_conexion whose principal has no attachment point
\* (no device matches, or the inventory is empty or unavailable) does not
\* succeed (it returns no handler), pushes no flow and records no connection.
C5_AttachmentNotFound ==
  [][(/\ last'.op = "crear_conexion"
      /\ last'.src_ap = "none")
     => /\ last'.status /= "ok"
        /\ last'.handler = None
        /\ last'.pushes = <<>>
        /\ conexiones' = conexiones
        /\ flows' = flows]_vars

\* an authorized crear_conexion asked for the devices and found no
\* attachment point
C5_Witness ==
  /\ last.op = "crear_conexion"
  /\ last.src_ap = "none"
  /\ last.devq = 2
  /\ verificar_autorizacion(cursos, last.args[1], last.args[2], last.args[3])

PushedName(push) == [switch |-> push.flow.switch, name |-> push.flow.name]

\* C6: when one of the four pushes of a crear_conexion fails, crear_conexion
\* fails and records no connection, no delete is issued and the acknowledged
\* flows stay installed; so a connection enters the table only with its four
\* pushes acknowledged.
C6_PartialPushNotRolledBack ==
  [][/\ (/\ last'.op = "crear_conexion"
         /\ \E i \in 1..Len(last'.pushes) : ~last'.pushes[i].ack)
        => /\ last'.status = "fail"
           /\ last'.handler = None
           /\ conexiones' = conexiones
           /\ last'.deletes = <<>>
           /\ flows \subseteq flows'
           /\ \A i \in 1..Len(last'.pushes) :
                last'.pushes[i].ack => PushedName(last'.pushes[i]) \in flows'
     /\ \A h \in DOMAIN conexiones' \ DOMAIN conexiones :
           /\ last'.op = "crear_conexion"
           /\ last'.handler = h
           /\ Len(last'.pushes) = 4
           /\ \A i \in 1..4 : last'.pushes[i].ack]_vars

\* a crear_conexion failed with one push acknowledged and installed and
\* another not acknowledged
C6_Witness ==
  /\ last.op = "crear_conexion"
  /\ last.status = "fail"
  /\ Len(last.pushes) = 4
  /\ \E i, j \in 1..4 :
       /\ last.pushes[i].ack
       /\ ~last.pushes[j].ack
       /\ PushedName(last.pushes[i]) \in flows

\* C7: eliminar_conexion(h) for a recorded h removes the record if and only if
\* the attachment point was resolved again and the four deletes were
\* acknowledged; otherwise it does not succeed and the record of h stays.
C7_DestroyRemovesIffAllDeleted ==
  [][(/\ last'.op = "eliminar_conexion"
      /\ last'.args[1] \in DOMAIN conexiones)
     => LET h == last'.args[1]
            done == /\ last'.src_ap = "ap"
                    /\ Len(last'.deletes) = 4
                    /\ \A i \in 1..4 : last'.deletes[i].ack
        IN /\ (h \notin DOMAIN conexiones') <=> done
           /\ done => last'.status = "ok" /\ conexiones' = Del(conexiones, h)
           /\ ~done => last'.status /= "ok" /\ conexiones' = conexiones]_vars

\* an eliminar_conexion resolved the attachment point, had one delete
\* acknowledged and another not, failed, and the record is still there
C7_Witness ==
  /\ last.op = "eliminar_conexion"
  /\ last.status = "fail"
  /\ last.args[1] \in DOMAIN conexiones
  /\ \E i, j \in 1..Len(last.deletes) : last.deletes[i].ack /\ ~last.deletes[j].ack

\* C8: eliminar_conexion of a handler without a record fails as unknown
\* connection, issues no controller call and leaves the connection table
\* unchanged.
C8_UnknownConnectionIsLocal ==
  [][(/\ last'.op = "eliminar_conexion"
      /\ last'.args[1] \notin DOMAIN conexiones)
     => /\ last'.status = "fail"
        /\ last'.reason = "no encontrada"
        /\ NoControllerCall(last')
        /\ conexiones' = conexiones
        /\ flows' = flows]_vars

\* eliminar_conexion was refused for the handler of a crear_conexion that
\* failed while provisioning
C8_Witness ==
  /\ last.op = "eliminar_conexion"
  /\ last.reason = "no encontrada"
  /\ last.args[1] = Handler(1)
  /\ connection_counter > 1
  /\ ~InSeq(Handler(1), issued)

\* C9: eliminar_conexion called twice on the handler of an existing connection
\* succeeds the first time (the record is gone) and fails as unknown
\* connection, without a delete call, the second time.
C9_DestroyTwice ==
  /\ [](last.op = "eliminar_conexion" /\ last.status = "ok"
          => /\ InSeq(last.args[1], issued)
             /\ last.args[1] \notin DOMAIN conexiones)
  /\ [][(/\ last.op = "eliminar_conexion"
         /\ last.status = "ok"
         /\ last'.op = "eliminar_conexion"
         /\ last'.args = last.args)
        => /\ last'.status = "fail"
           /\ last'.reason = "no encontrada"
           /\ NoControllerCall(last')]_vars

\* the second eliminar_conexion of a handler that was issued and destroyed
C9_Witness ==
  /\ last.op = "eliminar_conexion"
  /\ last.reason = "no encontrada"
  /\ InSeq(last.args[1], issued)

RECURSIVE DigitsValue(_, _)
\* int(digits), reading digits[i..]
DigitsValue(digits, acc) ==
  IF digits = <<>> THEN acc
  ELSE DigitsValue(Tail(digits),
                   10 * acc + (CHOOSE d \in 0..9 : DigitChar(d) = Head(digits)))

\* the number a handler was formatted from
HandlerNumber(h) == DigitsValue(Tail(h), 0)

FlowNames(h) ==
  { h \o <<"_arp_request">>, h \o <<"_arp_reply">>,
    h \o <<"_outbound">>, h \o <<"_inbound">> }

\* the handler the last crear_conexion generated
LastGenerated == Handler(connection_counter - 1)

\* C11: the flow names a crear_conexion pushes are exactly the four names of
\* its handler (arp_request, arp_reply, outbound, inbound), and the flow names
\* eliminar_conexion(h) asks the controller to delete are exactly the four
\* names of h: no extra name, no missing name.
C11_SameFourNames ==
  /\ (last.op = "crear_conexion" /\ last.pushes /= <<>>) =>
       /\ {last.pushes[i].flow.name : i \in 1..Len(last.pushes)} = FlowNames(LastGenerated)
       /\ last.status = "ok" => last.handler = LastGenerated
  /\ (last.op = "eliminar_conexion" /\ last.deletes /= <<>>) =>
       {last.deletes[i].name : i \in 1..Len(last.deletes)} = FlowNames(last.args[1])
  /\ \A h \in Handlers : Cardinality(FlowNames(h)) = 4

\* eliminar_conexion asked for the deletion of the four names of the second
\* handler issued
C11_Witness ==
  /\ last.op = "eliminar_conexion"
  /\ last.args[1] = Handler(2)
  /\ InSeq(Handler(2), issued)
  /\ {last.deletes[i].name : i \in 1..Len(last.deletes)} = FlowNames(Handler(2))

\* C12: a crear_conexion that succeeds makes exactly four push calls, in the
\* order ARP request, ARP reply, outbound, inbound, and records the
\* connection; an eliminar_conexion of the returned handler that succeeds
\* makes exactly four delete calls and removes the record.
C12_FourPushesThenFourDeletes ==
  /\ [](last.op = "crear_conexion" /\ last.status = "ok" =>
          /\ Len(last.pushes) = 4
          /\ last.pushes[1].flow.name = last.handler \o <<"_arp_request">>
          /\ "arp_tpa" \in DOMAIN last.pushes[1].flow
          /\ last.pushes[2].flow.name = last.handler \o <<"_arp_reply">>
          /\ "arp_spa" \in DOMAIN last.pushes[2].flow
          /\ last.pushes[3].flow.name = last.handler \o <<"_outbound">>
          /\ "ipv4_dst" \in DOMAIN last.pushes[3].flow
          /\ last.pushes[4].flow.name = last.handler \o <<"_inbound">>
          /\ "ipv4_src" \in DOMAIN last.pushes[4].flow
          /\ last.handler \in DOMAIN conexiones)
  /\ [][(last'.op = "eliminar_conexion" /\ last'.status = "ok") =>
          /\ InSeq(last'.args[1], issued)
          /\ Len(last'.deletes) = 4
          /\ last'.args[1] \in DOMAIN conexiones
          /\ last'.args[1] \notin DOMAIN conexiones']_vars

\* a connection was created and then eliminated with four deletes, and no
\* flow is left on the controller
C12_Witness ==
  /\ last.op = "eliminar_conexion"
  /\ last.status = "ok"
  /\ Len(last.deletes) = 4
  /\ InSeq(last.args[1], issued)
  /\ conexiones = EmptyDict
  /\ flows = {}

\* C13: in the outbound and inbound descriptors pushed, a TCP service gives
\* the TCP port field (tcp_dst outbound, tcp_src inbound) equal to the port of
\* the service and no UDP port field, a UDP service gives the UDP port field
\* (udp_dst, udp_src) and no TCP port field; the other field is absent from
\* the descriptor, not present with an empty value.
C13_ProtocolFieldsExclusive ==
  (last.op = "crear_conexion" /\ last.pushes /= <<>>) =>
    LET servicio == obtener_servicio(servidores[last.args[2]], last.args[3])[1]
        outbound == last.pushes[3].flow
        inbound  == last.pushes[4].flow
        puerto   == Str(servicio.puerto)
    IN
    /\ servicio.protocolo = <<"TCP">> =>
         /\ "tcp_dst" \in DOMAIN outbound /\ outbound.tcp_dst = puerto
         /\ "udp_dst" \notin DOMAIN outbound
         /\ "tcp_src" \in DOMAIN inbound /\ inbound.tcp_src = puerto
         /\ "udp_src" \notin DOMAIN inbound
    /\ servicio.protocolo = <<"UDP">> =>
         /\ "udp_dst" \in DOMAIN outbound /\ outbound.udp_dst = puerto
         /\ "tcp_dst" \notin DOMAIN outbound
         /\ "udp_src" \in DOMAIN inbound /\ inbound.udp_src = puerto
         /\ "tcp_src" \notin DOMAIN inbound
    /\ \A k \in DOMAIN outbound : outbound[k] /= <<>>
    /\ \A k \in DOMAIN inbound : inbound[k] /= <<>>

\* the flows of a UDP service (dns, port 53, declared "udp" in the file) were
\* pushed
C13_Witness ==
  /\ last.op = "crear_conexion"
  /\ last.args = <<"20210000", "Srv2", "dns">>
  /\ Len(last.pushes) = 4
  /\ last.pushes[3].flow.ip_proto = <<"17">>
  /\ last.pushes[3].flow.udp_dst = <<"5", "3">>
  /\ last.pushes[4].flow.udp_src = <<"5", "3">>

\* spellings of one hardware address: letter case and delimiter vary
MacSpellings ==
  { MacColon, MacDash, MacPlain, Upper(MacColon), Upper(MacDash),
    <<"a", "a", "b", "b">>, <<"A", "a", "-", "b", "B">> }

\* the inventory with that address reported in the spelling d
Respell(inventory, d) ==
  [i \in 1..Len(inventory) |->
     IF inventory[i].mac /= <<>> /\ inventory[i].mac[1] \in MacSpellings
     THEN [inventory[i] EXCEPT !.mac = <<d>>]
     ELSE inventory[i]]

\* C14: get_attachment_point compares hardware addresses without regard to
\* letter case and to the delimiter (":", "-" or none): for a fixed inventory
\* every spelling of a principal's address resolves to the same result, and so
\* does every spelling of the address a device reports.
C14_MacComparisonNormalized ==
  \* the principal table only changes in these two operations
  last.op \in {"importar_datos", "crear_alumno"} =>
  \A P \in DOMAIN alumnos :
    /\ alumnos[P].mac \in MacSpellings
    /\ \A inventory \in Inventories, m \in MacSpellings :
         /\ get_attachment_point(inventory, m)
              = get_attachment_point(inventory, alumnos[P].mac)
         /\ get_attachment_point(Respell(inventory, m), alumnos[P].mac)
              = get_attachment_point(inventory, alumnos[P].mac)

\* the principal registered as "aa-bb" (kept as "AA-BB") was resolved on the
\* switch of the device reported as "aa:bb", and its flows pushed there
C14_Witness ==
  /\ last.op = "crear_conexion"
  /\ last.args[1] = "20210000"
  /\ "20210000" \in DOMAIN alumnos
  /\ alumnos["20210000"].mac = <<"A", "A", "-", "B", "B">>
  /\ Len(last.pushes) = 4
  /\ last.pushes[1].flow.switch = <<"s1">>

\* C15: a recorded connection is not revoked by a later policy change: a step
\* that changes the policy tables (a course becomes inactive, a principal is
\* removed from a course, the data is imported again) leaves the connection
\* table unchanged and asks for no flow delete; only eliminar_conexion removes
\* a connection.
C15_PolicyChangeKeepsConnections ==
  /\ [][(alumnos' /= alumnos \/ servidores' /= servidores \/ cursos' /= cursos) =>
          /\ conexiones' = conexiones
          /\ flows' = flows
          /\ NoControllerCall(last')]_vars
  /\ [][(\E h \in DOMAIN conexiones : h \notin DOMAIN conexiones') =>
          /\ last'.op = "eliminar_conexion"
          /\ last'.status = "ok"
          /\ DOMAIN conexiones' = DOMAIN conexiones \ {last'.args[1]}]_vars

\* the data was imported again with the course inactive: the connection of
\* its principal is still recorded, its flows installed, and the same request
\* would now be refused
C15_Witness ==
  /\ last.op = "importar_datos"
  /\ last.status = "ok"
  /\ cursos["C1"].estado = <<"INACTIVO">>
  /\ flows /= {}
  /\ \E h \in DOMAIN conexiones :
       /\ conexiones[h].codigo_alumno = "20211049"
       /\ ~verificar_autorizacion(cursos, conexiones[h].codigo_alumno,
                                  conexiones[h].nombre_servidor,
                                  conexiones[h].nombre_servicio)

\* what the caller receives from the operation: the handler or None from
\* crear_conexion, True or False from eliminar_conexion
Returned(outcome) ==
  IF outcome.op = "crear_conexion" THEN outcome.handler
  ELSE IF outcome.status = "ok" THEN <<"True">> ELSE <<"False">>

\* the controller acknowledged no push and no delete of the operation
NothingHappened(outcome) ==
  /\ \A i \in 1..Len(outcome.pushes) : ~outcome.pushes[i].ack
  /\ \A i \in 1..Len(outcome.deletes) : ~outcome.deletes[i].ack

\* C16: from the result of a failed crear_conexion (and of a failed
\* eliminar_conexion) the caller can tell "nothing happened" from "some flows
\* may be installed or removed, some may not": two failed calls of the same
\* operation that return the same value agree on whether nothing happened.
C16_FailureTellsPartial ==
  [][(/\ last.op \in {"crear_conexion", "eliminar_conexion"}
      /\ last'.op = last.op
      /\ last.status = "fail"
      /\ last'.status = "fail"
      /\ Returned(last') = Returned(last))
     => (NothingHappened(last') <=> NothingHappened(last))]_vars

\* C17: every failure of a controller interaction (transport error,
\* non-success status, malformed payload) reaches the caller of
\* crear_conexion and eliminar_conexion as a failure value: no controller
\* response makes them end in an uncaught exception.
C17_NoUncaughtFault ==
  last.op \in {"crear_conexion", "eliminar_conexion"} => last.status /= "fault"

\* C18: verificar_autorizacion is false whenever the principal code is not in
\* the principal table, even when a course being taught enrols the code and
\* allows the server and service, and false when there is no course.
C18_UnknownPrincipalUnauthorized ==
  \A P \in Codigos, X \in ServerNames, S \in ServiceNames :
     (P \notin DOMAIN alumnos \/ cursos = EmptyDict)
        => ~verificar_autorizacion(cursos, P, X, S)

\* C19: get_attachment_point answers from the first device whose first address
\* matches: its first attachment point if it reports one, None if it reports
\* none, whatever devices follow; None if no device matches.
C19_FirstMatchDecides ==
  last.op \in {"importar_datos", "crear_alumno"} =>
  \A P \in DOMAIN alumnos, inventory \in Inventories :
    LET found == get_attachment_point(inventory, alumnos[P].mac)
        matching == {i \in 1..Len(inventory) :
                       /\ inventory[i].mac /= <<>>
                       /\ Normalize(inventory[i].mac[1]) = Normalize(alumnos[P].mac)}
        first == CHOOSE i \in matching : \A j \in matching : i <= j
    IN found /= Fault =>
         IF matching = {} THEN found = NotFound
         ELSE IF inventory[first].attachmentPoint = <<>> THEN found = NotFound
         ELSE /\ found.kind = "ap"
              /\ found.dpid = inventory[first].attachmentPoint[1].switchDPID
              /\ found.port = inventory[first].attachmentPoint[1].port

\* C20: the flows a failed crear_conexion left installed can be removed by a
\* later eliminar_conexion: after a crear_conexion in which a push was
\* acknowledged and another was not, eliminar_conexion of that handler asks
\* for the deletion of the flows that were installed.
C20_DestroyRemovesPartial ==
  [][(/\ last.op = "crear_conexion"
      /\ last.status = "fail"
      /\ \E i, j \in 1..Len(last.pushes) : last.pushes[i].ack /\ ~last.pushes[j].ack
      /\ last'.op = "eliminar_conexion"
      /\ last'.args[1] = LastGenerated)
     => \A i \in 1..Len(last.pushes) :
          last.pushes[i].ack =>
            \E k \in 1..Len(last'.deletes) :
               last'.deletes[k].name = last.pushes[i].flow.name]_vars

\* C22: after an eliminar_conexion(h) that succeeded, none of the four flows
\* crear_conexion installed for h is installed on any switch, also when the
\* principal's attachment point moved to another switch in between.
C22_DestroyLeavesNoFlow ==
  (last.op = "eliminar_conexion" /\ last.status = "ok") =>
     \A f \in flows : f.name \notin FlowNames(last.args[1])

\* C23: in every reachable state each connection of the table references a
\* principal code that is in the principal table, so the principal lookup of
\* eliminar_conexion never fails on a missing key (the device request that
\* follows it is made).
C23_ConnectionsReferencePrincipals ==
  /\ [](\A h \in DOMAIN conexiones : conexiones[h].codigo_alumno \in DOMAIN alumnos)
  /\ [][(last'.op = "eliminar_conexion" /\ last'.args[1] \in DOMAIN conexiones)
          => last'.devq = 1]_vars

\* the data was imported again while the connection of a principal that only
\* the menu created is recorded
C23_Witness ==
  /\ last.op = "importar_datos"
  /\ last.status = "ok"
  /\ \E h \in DOMAIN conexiones :
       /\ conexiones[h].codigo_alumno = "20210000"
       /\ "20210000" \in DOMAIN alumnos

\* C25: crear_conexion and eliminar_conexion change the connection table only
\* at their own handler: a successful crear_conexion adds exactly one record
\* under the handler just generated, a successful eliminar_conexion(h) removes
\* exactly the record of h, a failure changes nothing, and the records of all
\* other handlers (principal, server, service, flag) stay as they were.
C25_OnlyOwnHandlerChanges ==
  [][(last'.op \in {"crear_conexion", "eliminar_conexion"}) =>
       LET own == IF last'.op = "crear_conexion"
                  THEN Handler(connection_counter)
                  ELSE last'.args[1]
       IN
       /\ \A h \in (DOMAIN conexiones \cup DOMAIN conexiones') \ {own} :
             /\ h \in DOMAIN conexiones
             /\ h \in DOMAIN conexiones'
             /\ conexiones'[h] = conexiones[h]
       /\ (last'.op = "crear_conexion" /\ last'.status = "ok") =>
             /\ last'.handler = own
             /\ own \notin DOMAIN conexiones
             /\ own \in DOMAIN conexiones'
             /\ conexiones'[own] = [handler |-> own,
                                    codigo_alumno |-> last'.args[1],
                                    nombre_servidor |-> last'.args[2],
                                    nombre_servicio |-> last'.args[3],
                                    activa |-> TRUE]
       /\ (last'.op = "eliminar_conexion" /\ last'.status = "ok") =>
             /\ own \in DOMAIN conexiones
             /\ own \notin DOMAIN conexiones'
       /\ last'.status /= "ok" => conexiones' = conexiones]_vars

\* the first of two recorded connections was eliminated and the second is
\* still recorded
C25_Witness ==
  /\ last.op = "eliminar_conexion"
  /\ last.status = "ok"
  /\ Len(issued) = 2
  /\ last.args[1] = issued[1]
  /\ DOMAIN conexiones = {issued[2]}

\* C21: in crear_conexion the counter is read to build the handler in one
\* step and incremented in later steps, neither atomic with the insertion of
\* the record: when two calls are interleaved without mutual exclusion both
\* can be issued the same handler, and then the second insertion overwrites
\* the record of the first.
C21_HandlerReadNotAtomic ==
  /\ [][\A t \in Threads :
          (calls[t].pc = "handler" /\ calls'[t].pc = "load") =>
             /\ calls'[t].handler = Handler(connection_counter)
             /\ connection_counter' = connection_counter
             /\ conexiones' = conexiones]_vars
  /\ [][\A t \in Threads :
          (calls[t].pc = "record" /\ calls'[t].pc = "done") =>
             /\ calls'[t].result = calls[t].handler
             /\ DOMAIN conexiones' = DOMAIN conexiones \cup {calls[t].handler}
             /\ conexiones'[calls[t].handler] =
                  [handler |-> calls[t].handler,
                   codigo_alumno |-> calls[t].args[1],
                   nombre_servidor |-> calls[t].args[2],
                   nombre_servicio |-> calls[t].args[3],
                   activa |-> TRUE]]_vars
  /\ [](\A t, u \in Threads :
          (/\ t /= u
           /\ calls[t].result /= None
           /\ calls[t].result = calls[u].result)
          => Cardinality(DOMAIN conexiones) = 1)

\* two interleaved calls for different principals both returned conn_0001,
\* and the table holds one record
C21_Witness ==
  /\ calls[1].pc = "done"
  /\ calls[2].pc = "done"
  /\ calls[1].result = Handler(1)
  /\ calls[2].result = Handler(1)
  /\ calls[1].args[1] /= calls[2].args[1]
  /\ DOMAIN conexiones = {Handler(1)}

\* C24: a failed eliminar_conexion(h) can be retried: the record of h stays
\* in the table, every attempt that resolves the attachment point requests the
\* four deletes again, whatever was acknowledged before, and if the call is
\* repeated and the controller eventually resolves the attachment point and
\* acknowledges the four deletes of one call, the connection of h is
\* eventually removed.
C24_FailedDestroyIsRetryable ==
  /\ [][(/\ last'.op = "eliminar_conexion"
         /\ last'.status /= "ok"
         /\ last'.args[1] \in DOMAIN conexiones)
        => /\ last'.args[1] \in DOMAIN conexiones'
           /\ conexiones'[last'.args[1]] = conexiones[last'.args[1]]]_vars
  /\ [][(/\ last'.op = "eliminar_conexion"
         /\ last'.args[1] \in DOMAIN conexiones
         /\ last'.src_ap = "ap")
        => {last'.deletes[i].name : i \in 1..Len(last'.deletes)}
             = FlowNames(last'.args[1])]_vars
  /\ \A h \in HandlersEmitidos :
       (h \in DOMAIN conexiones) ~> (h \notin DOMAIN conexiones)

\* a repeated eliminar_conexion failed again (attachment point not found)
\* after an attempt in which only some deletes were acknowledged: the record
\* is still there, part of its flows are gone
C24_Witness ==
  /\ last.op = "eliminar_conexion"
  /\ last.status = "fail"
  /\ last.src_ap = "none"
  /\ last.args[1] \in DOMAIN conexiones
  /\ \E f \in flows : f.name \in FlowNames(last.args[1])
  /\ \E name \in FlowNames(last.args[1]) : \A f \in flows : f.name /= name

====
